---------------------------- MODULE Spec2Model ----------------------------
(***************************************************************************)
(* fancykeras: the EvaluateDataset callback                                *)
(* (Notebooks/00_Callbacks/00_00_evaluation.ipynb) as a state machine.     *)
(*                                                                         *)
(* The object's fields are the variables dataset .. _results_epochs.  The  *)
(* training framework (model.fit) is the environment: it calls the two     *)
(* notification methods in any interleaving, passing the batch number      *)
(* within the current epoch, and the caller may read the two result        *)
(* properties at any time.  model.evaluate is external: each call either   *)
(* returns one of EvalReturns or raises.                                   *)
(*                                                                         *)
(* Encodings.  A Python dict is a sequence of <<key, value>> pairs with    *)
(* distinct keys, in insertion order.  An optional integer is None (the    *)
(* empty tuple) or Some(n) (the tuple <<n>>).                              *)
(*                                                                         *)
(* The SkipConnection layer of the same notebook file is a second, small   *)
(* state machine (SkipSpec) over the variables skip_layer, skip_args and   *)
(* skip_call, which Spec leaves at None.                                   *)
(***************************************************************************)
EXTENDS Integers, Sequences, FiniteSets, TLC

(***************************************************************************)
(* Bounds of the environment.                                              *)
(***************************************************************************)
\* batch-end notifications the training run delivers
MaxBatches == 3
\* epoch-end notifications the training run delivers
MaxEpochs == 2
\* model.evaluate calls that raise during the training run
MaxEvalFailures == 1

None == <<>>
Some(n) == <<n>>

\* Arguments given for freq_epochs / freq_batches: the constructor accepts
\* whatever it is handed, so invalid frequencies are among them.
FreqArgs == {None, Some(-2), Some(0), Some(1), Some(2)}
\* Arguments given for append: the default and the notebook's demo value.
AppendArgs == {"", "_TID2013"}
\* The dataset handed to the constructor (opaque).
DatasetArgs == {"tid13"}
\* What model.evaluate(dataset, return_dict=True) may return.
EvalReturns ==
  { << <<"loss", 1>> >>,
    << <<"loss", 2>> >>,
    << <<"loss", 1>>, <<"acc", 2>> >> }
\* The training logs handed to a notification (ignored by the callback).
LogsArgs == {None, << <<"loss", 1>> >>}

VARIABLES
  dataset,            \* self.dataset
  freq_epochs,        \* self.freq_epochs
  freq_batches,       \* self.freq_batches
  append,             \* self.append
  batches_seen,       \* self.batches_seen
  epochs_seen,        \* self.epochs_seen
  _results_batches,   \* self._results_batches
  _results_epochs,    \* self._results_epochs
  ordinal,            \* environment: batches completed in the current epoch
  n_batch_notifs,     \* history: on_train_batch_end calls received
  n_epoch_notifs,     \* history: on_epoch_end calls received
  n_batch_returned,   \* history: on_train_batch_end calls, with the batch
                      \*   axis enabled, that returned without raising
  n_epoch_returned,   \* history: the same for on_epoch_end
  n_eval_calls,       \* history: model.evaluate invocations
  n_eval_failed,      \* history: model.evaluate invocations that raised
  last_raw,           \* history: what model.evaluate returned last
  last_call,          \* history: the method called last
  raised,             \* history: the exception the last call raised, or "none"
  ret,                \* history: the value the last property read returned
  skip_layer,         \* a SkipConnection's main_path, skip_path, combine
  skip_args,          \* history: the arguments its constructor was given
  skip_call           \* history: its last call: inputs, output, exception

fields == <<dataset, freq_epochs, freq_batches, append, batches_seen,
            epochs_seen, _results_batches, _results_epochs>>
config == <<dataset, freq_epochs, freq_batches, append>>
batch_axis == <<batches_seen, _results_batches>>
epoch_axis == <<epochs_seen, _results_epochs>>
eval_hist == <<n_eval_calls, n_eval_failed, last_raw>>
batch_hist == <<n_batch_notifs, n_batch_returned>>
epoch_hist == <<n_epoch_notifs, n_epoch_returned>>
vars == <<dataset, freq_epochs, freq_batches, append, batches_seen,
          epochs_seen, _results_batches, _results_epochs, ordinal,
          n_batch_notifs, n_epoch_notifs, n_batch_returned,
          n_epoch_returned, n_eval_calls, n_eval_failed, last_raw,
          last_call, raised, ret, skip_layer, skip_args, skip_call>>
skip_vars == <<skip_layer, skip_args, skip_call>>

(***************************************************************************)
(* Python's a % b for b # 0: the result has the sign of the divisor.       *)
(***************************************************************************)
PyMod(a, b) ==
  IF b > 0 THEN a % b
  ELSE LET r == (-a) % (-b) IN -r

\* EvaluateDataset._convert_to_dataset: returns its argument.
_convert_to_dataset(d) == d

(***************************************************************************)
(* EvaluateDataset.__init__: stores its arguments unchecked, zeroes both   *)
(* counters and empties both result lists.                                 *)
(***************************************************************************)
__init__(ds, fe, fb, ap) ==
  /\ dataset = _convert_to_dataset(ds)
  /\ freq_epochs = fe
  /\ freq_batches = fb
  /\ append = ap
  /\ batches_seen = 0
  /\ epochs_seen = 0
  /\ _results_batches = <<>>
  /\ _results_epochs = <<>>

Init ==
  /\ \E ds \in DatasetArgs, fe \in FreqArgs, fb \in FreqArgs, ap \in AppendArgs :
       __init__(ds, fe, fb, ap)
  /\ ordinal = 0
  /\ n_batch_notifs = 0
  /\ n_epoch_notifs = 0
  /\ n_batch_returned = 0
  /\ n_epoch_returned = 0
  /\ n_eval_calls = 0
  /\ n_eval_failed = 0
  /\ last_raw = <<>>
  /\ last_call = "__init__"
  /\ raised = "none"
  /\ ret = <<>>
  /\ skip_layer = None
  /\ skip_args = None
  /\ skip_call = None

(***************************************************************************)
(* EvaluateDataset.evaluate, given what model.evaluate returned: the dict  *)
(* comprehension {f"{name}{self.append}": value for name, value in ...}.   *)
(***************************************************************************)
\* Faulty variant: the suffix is forgotten.
evaluate_no_suffix(model_result) == model_result

evaluate(model_result) ==
  [i \in 1..Len(model_result) |->
     <<model_result[i][1] \o append, model_result[i][2]>>]


(***************************************************************************)
(* One call of self.evaluate() from a notification that fires: the         *)
(* external model.evaluate either returns a dict, which evaluate rewrites  *)
(* and the handler appends to `results` before incrementing `seen`, or it  *)
(* raises, and the exception leaves the handler before the append and      *)
(* before the increment.                                                   *)
(***************************************************************************)
\* Faulty variants: the exception is swallowed and an empty dict recorded;
\* the result is inserted at the front; model.evaluate is called twice; the
\* counter is incremented before the call, so also when it raises.
EvaluationCycle_swallows_failure(seen, results) ==
  \/ \E model_result \in EvalReturns :
       /\ results' = Append(results, evaluate(model_result))
       /\ seen' = seen + 1
       /\ n_eval_calls' = n_eval_calls + 1
       /\ last_raw' = model_result
       /\ raised' = "none"
       /\ UNCHANGED n_eval_failed
  \/ /\ n_eval_failed < MaxEvalFailures
     /\ n_eval_calls' = n_eval_calls + 1
     /\ n_eval_failed' = n_eval_failed + 1
     /\ raised' = "none"
     /\ results' = Append(results, <<>>)
     /\ seen' = seen + 1
     /\ UNCHANGED last_raw

EvaluationCycle_prepends(seen, results) ==
  \/ \E model_result \in EvalReturns :
       /\ results' = <<evaluate(model_result)>> \o results
       /\ seen' = seen + 1
       /\ n_eval_calls' = n_eval_calls + 1
       /\ last_raw' = model_result
       /\ raised' = "none"
       /\ UNCHANGED n_eval_failed
  \/ /\ n_eval_failed < MaxEvalFailures
     /\ n_eval_calls' = n_eval_calls + 1
     /\ n_eval_failed' = n_eval_failed + 1
     /\ raised' = "EvaluationFailure"
     /\ UNCHANGED <<seen, results, last_raw>>

EvaluationCycle_double_call(seen, results) ==
  \/ \E model_result \in EvalReturns :
       /\ results' = Append(results, evaluate(model_result))
       /\ seen' = seen + 1
       /\ n_eval_calls' = n_eval_calls + 2
       /\ last_raw' = model_result
       /\ raised' = "none"
       /\ UNCHANGED n_eval_failed
  \/ /\ n_eval_failed < MaxEvalFailures
     /\ n_eval_calls' = n_eval_calls + 1
     /\ n_eval_failed' = n_eval_failed + 1
     /\ raised' = "EvaluationFailure"
     /\ UNCHANGED <<seen, results, last_raw>>

EvaluationCycle_counts_failed(seen, results) ==
  \/ \E model_result \in EvalReturns :
       /\ results' = Append(results, evaluate(model_result))
       /\ seen' = seen + 1
       /\ n_eval_calls' = n_eval_calls + 1
       /\ last_raw' = model_result
       /\ raised' = "none"
       /\ UNCHANGED n_eval_failed
  \/ /\ n_eval_failed < MaxEvalFailures
     /\ n_eval_calls' = n_eval_calls + 1
     /\ n_eval_failed' = n_eval_failed + 1
     /\ raised' = "EvaluationFailure"
     /\ seen' = seen + 1
     /\ UNCHANGED <<results, last_raw>>

EvaluationCycle(seen, results) ==
  \/ \E model_result \in EvalReturns :
       /\ results' = Append(results, evaluate(model_result))
       /\ seen' = seen + 1
       /\ n_eval_calls' = n_eval_calls + 1
       /\ last_raw' = model_result
       /\ raised' = "none"
       /\ UNCHANGED n_eval_failed
  \/ /\ n_eval_failed < MaxEvalFailures
     /\ n_eval_calls' = n_eval_calls + 1
     /\ n_eval_failed' = n_eval_failed + 1
     /\ raised' = "EvaluationFailure"
     /\ UNCHANGED <<seen, results, last_raw>>

\* A notification that does not fire: only its counter advances.
CountOnly(seen, results) ==
  /\ seen' = seen + 1
  /\ raised' = "none"
  /\ UNCHANGED <<results, eval_hist>>

\* `if self.freq_... is None: return`
ReturnEarly(seen, results) ==
  /\ raised' = "none"
  /\ UNCHANGED <<seen, results, eval_hist>>

\* `x % 0` raises ZeroDivisionError before anything is changed.
RaiseZeroDivision(seen, results) ==
  /\ raised' = "ZeroDivisionError"
  /\ UNCHANGED <<seen, results, eval_hist>>

(***************************************************************************)
(* The trigger tests, `self.batches_seen % self.freq_batches == 0` and     *)
(* `self.epochs_seen % self.freq_epochs == 0`, in the scope of their       *)
(* handler (whose first parameter they do not read).                       *)
(***************************************************************************)
\* Faulty variants: the test made on the counter after its increment; the
\* test made on the batch number within the epoch.
TriggerBatch_after_increment(batch) == PyMod(batches_seen + 1, freq_batches[1]) = 0

TriggerBatch_on_ordinal(batch) == PyMod(batch, freq_batches[1]) = 0

TriggerBatch(batch) == PyMod(batches_seen, freq_batches[1]) = 0

\* Faulty variant: the test made on the counter after its increment.
TriggerEpoch_after_increment(batch) == PyMod(epochs_seen + 1, freq_epochs[1]) = 0

TriggerEpoch(batch) == PyMod(epochs_seen, freq_epochs[1]) = 0

(***************************************************************************)
(* EvaluateDataset.on_train_batch_end(batch, logs).                        *)
(***************************************************************************)
\* Faulty variants: the counter advances although the axis is disabled; the
\* increment sits inside the `if` and only a firing notification counts.
on_train_batch_end_counts_when_disabled(batch, logs) ==
  /\ IF freq_batches = None THEN CountOnly(batches_seen, _results_batches)
     ELSE IF freq_batches[1] = 0
          THEN RaiseZeroDivision(batches_seen, _results_batches)
     ELSE IF TriggerBatch(batch)
          THEN EvaluationCycle(batches_seen, _results_batches)
          ELSE CountOnly(batches_seen, _results_batches)
  /\ UNCHANGED <<config, epoch_axis>>

on_train_batch_end_counts_only_fired(batch, logs) ==
  /\ IF freq_batches = None THEN ReturnEarly(batches_seen, _results_batches)
     ELSE IF freq_batches[1] = 0
          THEN RaiseZeroDivision(batches_seen, _results_batches)
     ELSE IF TriggerBatch(batch)
          THEN EvaluationCycle(batches_seen, _results_batches)
          ELSE ReturnEarly(batches_seen, _results_batches)
  /\ UNCHANGED <<config, epoch_axis>>

on_train_batch_end(batch, logs) ==
  /\ IF freq_batches = None THEN ReturnEarly(batches_seen, _results_batches)
     ELSE IF freq_batches[1] = 0
          THEN RaiseZeroDivision(batches_seen, _results_batches)
     ELSE IF TriggerBatch(batch)
          THEN EvaluationCycle(batches_seen, _results_batches)
          ELSE CountOnly(batches_seen, _results_batches)
  /\ UNCHANGED <<config, epoch_axis>>

(***************************************************************************)
(* EvaluateDataset.on_epoch_end(batch, logs).                              *)
(***************************************************************************)
\* Faulty variant: the batch counter is started again at each epoch's end.
on_epoch_end_resets_batches(batch, logs) ==
  /\ IF freq_epochs = None THEN ReturnEarly(epochs_seen, _results_epochs)
     ELSE IF freq_epochs[1] = 0
          THEN RaiseZeroDivision(epochs_seen, _results_epochs)
     ELSE IF TriggerEpoch(batch)
          THEN EvaluationCycle(epochs_seen, _results_epochs)
          ELSE CountOnly(epochs_seen, _results_epochs)
  /\ batches_seen' = 0
  /\ UNCHANGED <<config, _results_batches>>

on_epoch_end(batch, logs) ==
  /\ IF freq_epochs = None THEN ReturnEarly(epochs_seen, _results_epochs)
     ELSE IF freq_epochs[1] = 0
          THEN RaiseZeroDivision(epochs_seen, _results_epochs)
     ELSE IF TriggerEpoch(batch)
          THEN EvaluationCycle(epochs_seen, _results_epochs)
          ELSE CountOnly(epochs_seen, _results_epochs)
  /\ UNCHANGED <<config, batch_axis>>

(***************************************************************************)
(* The training framework delivers a notification: batch-end with the      *)
(* number of the batch within the current epoch, epoch-end with the number *)
(* of the epoch; an epoch's end starts the batch numbering again.          *)
(***************************************************************************)
FitBatchEnd ==
  /\ n_batch_notifs < MaxBatches
  /\ \E logs \in LogsArgs : on_train_batch_end(ordinal, logs)
  /\ ordinal' = ordinal + 1
  /\ n_batch_notifs' = n_batch_notifs + 1
  /\ n_batch_returned' =
       IF freq_batches # None /\ raised' = "none"
       THEN n_batch_returned + 1 ELSE n_batch_returned
  /\ last_call' = "on_train_batch_end"
  /\ ret' = <<>>
  /\ UNCHANGED <<epoch_hist, skip_vars>>

FitEpochEnd ==
  /\ n_epoch_notifs < MaxEpochs
  /\ \E logs \in LogsArgs : on_epoch_end(n_epoch_notifs, logs)
  /\ ordinal' = 0
  /\ n_epoch_notifs' = n_epoch_notifs + 1
  /\ n_epoch_returned' =
       IF freq_epochs # None /\ raised' = "none"
       THEN n_epoch_returned + 1 ELSE n_epoch_returned
  /\ last_call' = "on_epoch_end"
  /\ ret' = <<>>
  /\ UNCHANGED <<batch_hist, skip_vars>>

(***************************************************************************)
(* EvaluateDataset._unpack_list_dicts(list_of_dicts): the dict `res` is    *)
(* built by the two nested loops; a metric not yet in res gets an empty    *)
(* list, then the value is appended to the metric's list.                  *)
(***************************************************************************)
Keys(d) == {d[i][1] : i \in 1..Len(d)}

\* res[metric] = []
\* Faulty variant: the new key is put before the keys already there.
SetEmpty_front(res, metric) == <<<<metric, <<>>>>>> \o res

SetEmpty(res, metric) == Append(res, <<metric, <<>>>>)

\* res[metric].append(value)
\* Faulty variant: res[metric].insert(0, value)
AppendTo_front(res, metric, value) ==
  [i \in 1..Len(res) |->
     IF res[i][1] = metric THEN <<metric, <<value>> \o res[i][2]>> ELSE res[i]]

AppendTo(res, metric, value) ==
  [i \in 1..Len(res) |->
     IF res[i][1] = metric THEN <<metric, Append(res[i][2], value)>> ELSE res[i]]

\* for metric, value in result.items(): ...
RECURSIVE UnpackItems(_, _)
UnpackItems(res, items) ==
  IF items = <<>> THEN res
  ELSE LET metric == Head(items)[1]
           value == Head(items)[2]
           res1 == IF metric \notin Keys(res) THEN SetEmpty(res, metric) ELSE res
       IN UnpackItems(AppendTo(res1, metric, value), Tail(items))

\* for result in list_of_dicts: ...
RECURSIVE UnpackFrom(_, _)
UnpackFrom(res, list_of_dicts) ==
  IF list_of_dicts = <<>> THEN res
  ELSE UnpackFrom(UnpackItems(res, Head(list_of_dicts)), Tail(list_of_dicts))

_unpack_list_dicts(list_of_dicts) == UnpackFrom(<<>>, list_of_dicts)

(***************************************************************************)
(* The properties results_batches and results_epochs.                      *)
(***************************************************************************)
\* Faulty variant: the emptiness test is missing.
ReadResults_empty_mapping(name, results) ==
  /\ last_call' = name
  /\ raised' = "none"
  /\ ret' = _unpack_list_dicts(results)
  /\ UNCHANGED <<fields, ordinal, batch_hist, epoch_hist, eval_hist, skip_vars>>

\* Faulty variant: the read hands the list over and empties it.
ReadResults_draining(name, results) ==
  /\ last_call' = name
  /\ IF Len(results) = 0
     THEN /\ raised' = "ValueError"
          /\ ret' = <<>>
     ELSE /\ raised' = "none"
          /\ ret' = _unpack_list_dicts(results)
  /\ results' = <<>>
  /\ IF name = "results_batches"
     THEN UNCHANGED _results_epochs ELSE UNCHANGED _results_batches
  /\ UNCHANGED <<config, batches_seen, epochs_seen, ordinal, batch_hist,
                 epoch_hist, eval_hist, skip_vars>>

ReadResults(name, results) ==
  /\ last_call' = name
  /\ IF Len(results) = 0
     THEN /\ raised' = "ValueError"
          /\ ret' = <<>>
     ELSE /\ raised' = "none"
          /\ ret' = _unpack_list_dicts(results)
  /\ UNCHANGED <<fields, ordinal, batch_hist, epoch_hist, eval_hist, skip_vars>>

results_batches == ReadResults("results_batches", _results_batches)

results_epochs == ReadResults("results_epochs", _results_epochs)

(***************************************************************************)
(* The same two properties as the second copy of the class has them        *)
(* (unnamed/part_000): _unpack_list_dicts is declared without              *)
(* @staticmethod and with one parameter, so the bound call                 *)
(* self._unpack_list_dicts(self._results_...) passes two arguments and     *)
(* raises TypeError.  The handlers of that copy are the same text as the   *)
(* notebook's, so the lengths of the result lists are the same.            *)
(***************************************************************************)
ReadResults_part000(name, results) ==
  /\ last_call' = name
  /\ IF Len(results) = 0
     THEN raised' = "ValueError"
     ELSE raised' = "TypeError"
  /\ ret' = <<>>
  /\ UNCHANGED <<fields, ordinal, batch_hist, epoch_hist, eval_hist, skip_vars>>

results_batches_part000 == ReadResults_part000("part_000.results_batches", _results_batches)

results_epochs_part000 == ReadResults_part000("part_000.results_epochs", _results_epochs)

Next ==
  \/ FitBatchEnd
  \/ FitEpochEnd
  \/ results_batches
  \/ results_epochs
  \/ results_batches_part000
  \/ results_epochs_part000

Spec == Init /\ [][Next]_vars

(***************************************************************************)
(* SkipConnection (same notebook file, second notebook).                   *)
(*                                                                         *)
(* A tensor of rank 2 is a sequence of rows (the batch dimension), each a  *)
(* sequence of integers (the last dimension).  A layer object is a record  *)
(* of its kind and its number of units.  Dense stands for the main paths   *)
(* of the notebook's tests (Sequential of Dense layers): its output has    *)
(* `units` columns whatever the input's last dimension is.                 *)
(***************************************************************************)
MaxBatchSize == 2
MaxDim == 3

\* The rows of the input tensors: the one-hot vectors of each dimension.
OneHot(d, k) == [j \in 1..d |-> IF j = k THEN 1 ELSE 0]
Rows(d) == {OneHot(d, k) : k \in 1..d}
Tensors ==
  UNION {[1..b -> Rows(d)] : b \in 1..MaxBatchSize, d \in 1..MaxDim}

BatchSize(t) == Len(t)
LastDim(t) == Len(t[1])

Dense(n) == [kind |-> "Dense", units |-> n]
IdentityLayer == [kind |-> "Identity", units |-> 0]
AddLayer == [kind |-> "Add", units |-> 0]
ConcatenateLayer == [kind |-> "Concatenate", units |-> 0]

MainPathArgs == {Dense(n) : n \in 1..MaxDim}
SkipPathArgs == {None} \cup {Dense(n) : n \in 1..MaxDim}
HowArgs == {"add", "concat", "ADD"}

RECURSIVE WeightedSum(_)
WeightedSum(row) ==
  IF row = <<>> THEN 0
  ELSE Len(row) * row[Len(row)] + WeightedSum(SubSeq(row, 1, Len(row) - 1))

\* Identity.call: the output is the input.
Identity(inputs) == inputs

\* A Dense layer whose weight from input k is k and whose bias on unit j
\* is j.
DenseCall(units, inputs) ==
  [i \in 1..Len(inputs) |-> [j \in 1..units |-> WeightedSum(inputs[i]) + j]]

\* layer(inputs), by the kind of the layer.
Apply(layer, inputs) ==
  IF layer.kind = "Identity" THEN Identity(inputs)
  ELSE DenseCall(layer.units, inputs)

\* keras Add: the last dimensions must agree, or one of them is 1 and is
\* broadcast; otherwise ValueError.
AddCompatible(a, b) ==
  LastDim(a) = LastDim(b) \/ LastDim(a) = 1 \/ LastDim(b) = 1

Broadcast(row, d) == IF Len(row) = d THEN row ELSE [j \in 1..d |-> row[1]]

AddCall(a, b) ==
  LET d == IF LastDim(a) >= LastDim(b) THEN LastDim(a) ELSE LastDim(b)
  IN  [i \in 1..Len(a) |->
         [j \in 1..d |-> Broadcast(a[i], d)[j] + Broadcast(b[i], d)[j]]]

\* keras Concatenate, along the last axis.
ConcatenateCall(a, b) == [i \in 1..Len(a) |-> a[i] \o b[i]]

Raises(combine, tensors) ==
  combine.kind = "Add" /\ ~AddCompatible(tensors[1], tensors[2])

Combine(combine, tensors) ==
  IF combine.kind = "Add" THEN AddCall(tensors[1], tensors[2])
  ELSE ConcatenateCall(tensors[1], tensors[2])

\* self.skip_path = Identity() if skip_path is None else skip_path
DefaultSkip(skip_path) ==
  IF skip_path = None THEN IdentityLayer ELSE skip_path

SelectCombine_always_add(how) == AddLayer

\* self.combine = layers.Add() if how=="add" else layers.Concatenate()
SelectCombine(how) ==
  IF how = "add" THEN AddLayer ELSE ConcatenateLayer

SkipConnection_init(main, skip, how) ==
  /\ skip_layer = [main_path |-> main,
                   skip_path |-> DefaultSkip(skip),
                   combine   |-> SelectCombine(how)]
  /\ skip_args = [main_path |-> main, skip_path |-> skip, how |-> how]
  /\ skip_call = None

CallPaths_skip_first(inputs) ==
  <<Apply(skip_layer.skip_path, inputs), Apply(skip_layer.main_path, inputs)>>

\* main_path = self.main_path(inputs); skip_path = self.skip_path(inputs);
\* the list handed to self.combine.
CallPaths(inputs) ==
  <<Apply(skip_layer.main_path, inputs), Apply(skip_layer.skip_path, inputs)>>

\* SkipConnection.call
call(inputs) ==
  LET paths == CallPaths(inputs)
  IN  /\ skip_call' =
           IF Raises(skip_layer.combine, paths)
             THEN [inputs |-> inputs, output |-> <<>>, raised |-> "ValueError"]
             ELSE [inputs |-> inputs,
                   output |-> Combine(skip_layer.combine, paths),
                   raised |-> "none"]
      /\ UNCHANGED <<skip_layer, skip_args>>

\* The evaluation callback plays no part: it stays as constructed.
SkipInit ==
  /\ __init__("tid13", None, None, "")
  /\ ordinal = 0
  /\ n_batch_notifs = 0
  /\ n_epoch_notifs = 0
  /\ n_batch_returned = 0
  /\ n_epoch_returned = 0
  /\ n_eval_calls = 0
  /\ n_eval_failed = 0
  /\ last_raw = <<>>
  /\ last_call = "__init__"
  /\ raised = "none"
  /\ ret = <<>>
  /\ \E main \in MainPathArgs, skip \in SkipPathArgs, how \in HowArgs :
       SkipConnection_init(main, skip, how)

SkipCall ==
  /\ \E inputs \in Tensors : call(inputs)
  /\ UNCHANGED <<fields, ordinal, batch_hist, epoch_hist, eval_hist,
                 last_call, raised, ret>>

SkipNext == SkipCall

SkipSpec == SkipInit /\ [][SkipNext]_vars

(***************************************************************************)
(* Vocabulary of the properties.                                           *)
(***************************************************************************)
\* f is a supplied frequency that is a positive integer
IsPositive(f) == f # None /\ f[1] > 0

\* how many of the notification indices 0 .. n-1 are multiples of F
CyclesDue(n, F) == IF n = 0 THEN 0 ELSE ((n - 1) \div F) + 1

\* the value dict d holds for key k
ValueOf(d, k) == LET i == CHOOSE j \in 1..Len(d) : d[j][1] = k IN d[i][2]

\* every dict of the list has the key set of the first
StableKeys(list_of_dicts) ==
  \A i \in 1..Len(list_of_dicts) : Keys(list_of_dicts[i]) = Keys(list_of_dicts[1])

BatchReads == {"results_batches", "part_000.results_batches"}
EpochReads == {"results_epochs", "part_000.results_epochs"}

(***************************************************************************)
(* C1.  With a positive batch frequency F and model.evaluate never         *)
(* failing, after B batch-end notifications the batch result list has      *)
(* length 0 if B = 0 and floor((B-1)/F) + 1 otherwise, in every reachable  *)
(* state: the cycles fire on the notification indices 0, F, 2F, ...        *)
(***************************************************************************)
C1_BatchCycleCount ==
  (IsPositive(freq_batches) /\ n_eval_failed = 0)
    => Len(_results_batches) = CyclesDue(n_batch_notifs, freq_batches[1])

C1_Witness ==
  /\ freq_batches = Some(2)
  /\ n_eval_failed = 0
  /\ n_batch_notifs = 3
  /\ Len(_results_batches) = 2

(***************************************************************************)
(* C2.  With a positive epoch frequency F and model.evaluate never         *)
(* failing, after E epoch-end notifications the epoch result list has      *)
(* length 0 if E = 0 and floor((E-1)/F) + 1 otherwise, whatever batch-end  *)
(* notifications came in between.                                          *)
(***************************************************************************)
C2_EpochCycleCount ==
  (IsPositive(freq_epochs) /\ n_eval_failed = 0)
    => Len(_results_epochs) = CyclesDue(n_epoch_notifs, freq_epochs[1])

C2_Witness ==
  /\ freq_epochs = Some(2)
  /\ n_eval_failed = 0
  /\ n_epoch_notifs = 2
  /\ n_batch_notifs >= 2
  /\ Len(_results_epochs) = 1

(***************************************************************************)
(* C3.  An evaluator whose supplied frequency is not a positive integer    *)
(* is rejected at construction, so none ever receives a notification.      *)
(***************************************************************************)
C3_InvalidFrequencyRejected ==
  /\ n_batch_notifs > 0 => (freq_batches = None \/ freq_batches[1] > 0)
  /\ n_epoch_notifs > 0 => (freq_epochs = None \/ freq_epochs[1] > 0)

(***************************************************************************)
(* C4.  A notification on an axis whose frequency is None changes no field *)
(* of the evaluator (neither counter, neither result list), does not call  *)
(* model.evaluate and returns normally.                                    *)
(***************************************************************************)
C4_DisabledAxisNoOp ==
  [][ ( \/ (freq_batches = None /\ n_batch_notifs' = n_batch_notifs + 1)
        \/ (freq_epochs = None /\ n_epoch_notifs' = n_epoch_notifs + 1) )
      => ( /\ UNCHANGED fields
           /\ n_eval_calls' = n_eval_calls
           /\ raised' = "none" ) ]_vars

C4_Witness ==
  /\ freq_batches = None
  /\ n_batch_notifs >= 2
  /\ batches_seen = 0
  /\ Len(_results_epochs) >= 1

(***************************************************************************)
(* C5, as stated.  Each counter equals the number of notifications         *)
(* received on its axis.                                                   *)
(***************************************************************************)
C5_CountersEqualNotifications ==
  /\ batches_seen = n_batch_notifs
  /\ epochs_seen = n_epoch_notifs

(***************************************************************************)
(* C5, amended.  Each counter equals the number of notifications on its    *)
(* axis that were received while the axis was enabled (frequency not None) *)
(* and returned without raising, whether or not they fired a cycle; so the *)
(* counters start at 0 and never exceed the notifications received.        *)
(***************************************************************************)
C5_CountersEqualReturnedNotifications ==
  /\ batches_seen = n_batch_returned
  /\ epochs_seen = n_epoch_returned
  /\ batches_seen <= n_batch_notifs
  /\ epochs_seen <= n_epoch_notifs

C5_Witness ==
  /\ freq_batches = Some(2)
  /\ batches_seen = 2
  /\ n_batch_notifs = 2
  /\ Len(_results_batches) = 1
  /\ freq_epochs = None
  /\ n_epoch_notifs = 1
  /\ epochs_seen = 0

(***************************************************************************)
(* C6.  The dict a cycle appends has, position by position, the keys that  *)
(* model.evaluate returned with self.append added at the end and the same  *)
(* values, and nothing else; with the empty suffix it is the returned      *)
(* dict.                                                                   *)
(***************************************************************************)
Rewritten(d, raw) ==
  /\ Len(d) = Len(raw)
  /\ \A i \in 1..Len(raw) : d[i][1] = raw[i][1] \o append /\ d[i][2] = raw[i][2]
  /\ append = "" => d = raw

C6_AppendedDictIsSuffixed ==
  [][ /\ Len(_results_batches') = Len(_results_batches) + 1
        => Rewritten(_results_batches'[Len(_results_batches')], last_raw')
      /\ Len(_results_epochs') = Len(_results_epochs) + 1
        => Rewritten(_results_epochs'[Len(_results_epochs')], last_raw') ]_vars

C6_Witness ==
  /\ last_call = "on_train_batch_end"
  /\ append = "_TID2013"
  /\ last_raw = << <<"loss", 1>>, <<"acc", 2>> >>
  /\ Len(_results_batches) = 2
  /\ _results_batches[2] = << <<"loss_TID2013", 1>>, <<"acc_TID2013", 2>> >>

(***************************************************************************)
(* C7.  Reading the result property of an axis whose result list is empty  *)
(* raises the no-results error (ValueError) instead of returning a         *)
(* mapping, whatever the other axis holds.                                 *)
(***************************************************************************)
C7_EmptyReadRaises ==
  /\ (last_call \in BatchReads /\ Len(_results_batches) = 0)
       => (raised = "ValueError" /\ ret = <<>>)
  /\ (last_call \in EpochReads /\ Len(_results_epochs) = 0)
       => (raised = "ValueError" /\ ret = <<>>)

C7_Witness ==
  /\ last_call = "results_batches"
  /\ raised = "ValueError"
  /\ freq_batches = None
  /\ n_batch_notifs >= 1
  /\ Len(_results_epochs) = 2

(***************************************************************************)
(* C8.  Once a cycle has fired on an axis, and the key set being the same  *)
(* on every cycle, reading that axis's result property returns without     *)
(* error a mapping with that key set whose every list has as many values   *)
(* as cycles fired.  (Stated for evaluators constructed with a positive   *)
(* frequency on the axis read.)                                            *)
(***************************************************************************)
ReadsTable(results) ==
  /\ raised = "none"
  /\ Keys(ret) = Keys(results[1])
  /\ \A j \in 1..Len(ret) : Len(ret[j][2]) = Len(results)

C8_ReadAfterCycleReturnsTable ==
  /\ (last_call \in BatchReads /\ IsPositive(freq_batches)
        /\ Len(_results_batches) >= 1 /\ StableKeys(_results_batches))
       => ReadsTable(_results_batches)
  /\ (last_call \in EpochReads /\ IsPositive(freq_epochs)
        /\ Len(_results_epochs) >= 1 /\ StableKeys(_results_epochs))
       => ReadsTable(_results_epochs)

(***************************************************************************)
(* C9.  The mapping the result property returns keeps the order of the     *)
(* cycles: the key set being stable, the i-th value of the list of metric  *)
(* k is the value the i-th dict of the result list holds for k.            *)
(***************************************************************************)
InCycleOrder(results) ==
  \A j \in 1..Len(ret) :
    /\ Len(ret[j][2]) = Len(results)
    /\ \A i \in 1..Len(results) : ret[j][2][i] = ValueOf(results[i], ret[j][1])

C9_ReadKeepsCycleOrder ==
  /\ (last_call = "results_batches" /\ raised = "none"
        /\ StableKeys(_results_batches)) => InCycleOrder(_results_batches)
  /\ (last_call = "results_epochs" /\ raised = "none"
        /\ StableKeys(_results_epochs)) => InCycleOrder(_results_epochs)

C9_Witness ==
  /\ last_call = "results_batches"
  /\ raised = "none"
  /\ ret = << <<"loss_TID2013", <<1, 2>> >> >>

(***************************************************************************)
(* C10.  Whether a batch-end notification fires depends on the number of   *)
(* batch-end notifications received since construction, not on the batch   *)
(* number within the epoch that it is handed: with a positive frequency F  *)
(* and no failure, the notification of global index n fires iff n is a     *)
(* multiple of F, and an epoch's end leaves batches_seen as it is.         *)
(***************************************************************************)
C10_TriggerOnRunningCount ==
  [][ /\ ( /\ n_batch_notifs' = n_batch_notifs + 1
           /\ IsPositive(freq_batches)
           /\ n_eval_failed' = 0 )
        => ( /\ (Len(_results_batches') = Len(_results_batches) + 1)
                  <=> (n_batch_notifs % freq_batches[1] = 0)
             /\ batches_seen' = n_batch_notifs + 1 )
      /\ n_epoch_notifs' = n_epoch_notifs + 1
        => batches_seen' = batches_seen ]_vars

C10_Witness ==
  /\ last_call = "on_train_batch_end"
  /\ freq_batches = Some(2)
  /\ n_eval_failed = 0
  /\ n_epoch_notifs = 1
  /\ n_batch_notifs = 3
  /\ ordinal = 2
  /\ Len(_results_batches) = 2

(***************************************************************************)
(* More vocabulary: the kinds of step.                                     *)
(***************************************************************************)
BatchNotified == n_batch_notifs' = n_batch_notifs + 1
EpochNotified == n_epoch_notifs' = n_epoch_notifs + 1
EvaluateFailed == n_eval_failed' = n_eval_failed + 1
EvaluateCalled == n_eval_calls' # n_eval_calls
BatchFired == Len(_results_batches') = Len(_results_batches) + 1
EpochFired == Len(_results_epochs') = Len(_results_epochs) + 1

\* the test `seen % freq == 0` is reached and true
Due(freq, seen) == freq # None /\ freq[1] # 0 /\ PyMod(seen, freq[1]) = 0

(***************************************************************************)
(* C11.  When model.evaluate raises during a notification, the exception   *)
(* leaves the notification method, neither result list gets an entry, and  *)
(* model.evaluate was called once only in that notification (no retry, no  *)
(* partial result).                                                        *)
(***************************************************************************)
C11_FailurePropagatesNothingAppended ==
  [][ EvaluateFailed
      => ( /\ raised' = "EvaluationFailure"
           /\ _results_batches' = _results_batches
           /\ _results_epochs' = _results_epochs
           /\ n_eval_calls' = n_eval_calls + 1 ) ]_vars

C11_Witness ==
  /\ last_call = "on_train_batch_end"
  /\ raised = "EvaluationFailure"
  /\ n_eval_failed = 1
  /\ n_batch_notifs = 2
  /\ Len(_results_batches) = 1
  /\ n_eval_calls = 2

(***************************************************************************)
(* C12.  The two result lists are append-only: in every step each is       *)
(* unchanged or has one more entry at its end, the entries already there   *)
(* staying as and where they were.                                         *)
(***************************************************************************)
Extended(old, new) ==
  \/ new = old
  \/ /\ Len(new) = Len(old) + 1
     /\ SubSeq(new, 1, Len(old)) = old

C12_ResultsAppendOnly ==
  [][ /\ Extended(_results_batches, _results_batches')
      /\ Extended(_results_epochs, _results_epochs') ]_vars

C12_Witness ==
  /\ Len(_results_batches) = 3
  /\ _results_batches[1] # _results_batches[2]
  /\ _results_batches[2] # _results_batches[3]
  /\ Len(_results_epochs) = 2
  /\ _results_epochs[1] # _results_epochs[2]

(***************************************************************************)
(* C13.  The axes are independent: a batch-end notification leaves         *)
(* epochs_seen and the epoch result list unchanged, an epoch-end           *)
(* notification leaves batches_seen and the batch result list unchanged.   *)
(***************************************************************************)
C13_AxesIndependent ==
  [][ /\ BatchNotified => UNCHANGED epoch_axis
      /\ EpochNotified => UNCHANGED batch_axis ]_vars

C13_Witness ==
  /\ last_call = "on_epoch_end"
  /\ freq_batches = Some(2)
  /\ freq_epochs = Some(1)
  /\ batches_seen = 3
  /\ Len(_results_batches) = 2
  /\ epochs_seen = 2
  /\ Len(_results_epochs) = 2

(***************************************************************************)
(* C14.  The result properties are read-only: a read, whether it returns   *)
(* a mapping or raises, changes no field and does not call model.evaluate; *)
(* a read that follows a read of the same property returns the same.       *)
(***************************************************************************)
Reads == BatchReads \cup EpochReads

C14_ReadsChangeNothing ==
  [][ last_call' \in Reads
      => ( /\ UNCHANGED fields
           /\ n_eval_calls' = n_eval_calls
           /\ last_call = last_call' => (ret' = ret /\ raised' = raised) ) ]_vars

C14_Witness ==
  /\ last_call = "results_epochs"
  /\ raised = "none"
  /\ Len(ret) = 2
  /\ Len(_results_epochs) = 2
  /\ Len(_results_batches) = 0
  /\ n_batch_notifs >= 1

(***************************************************************************)
(* C15.  Whether a notification fires is decided by the frequency of its   *)
(* axis and the number of notifications that axis received before it, and  *)
(* by nothing else (not the batch number, not the logs, not the values     *)
(* model.evaluate returns): in runs without failure, a batch-end           *)
(* notification fires iff Due(freq_batches, notifications before it), and  *)
(* the same for epoch-end.  Two evaluators with the same frequencies and   *)
(* the same order of notifications therefore fire on the same ones.        *)
(***************************************************************************)
C15_FiringDecidedByCounts ==
  [][ n_eval_failed' = 0
      => ( /\ BatchNotified
                => (BatchFired
                      <=> Due(freq_batches, n_batch_notifs))
           /\ EpochNotified
                => (EpochFired
                      <=> Due(freq_epochs, n_epoch_notifs)) ) ]_vars

C15_Witness ==
  /\ freq_batches = Some(-2)
  /\ freq_epochs = Some(2)
  /\ n_eval_failed = 0
  /\ n_batch_notifs = 3
  /\ n_epoch_notifs = 2
  /\ Len(_results_batches) = 2
  /\ Len(_results_epochs) = 1
  /\ _results_batches[1] # _results_batches[2]

(***************************************************************************)
(* C17.  model.evaluate is called at most once per step: exactly once in a *)
(* notification whose axis is enabled and whose counter is a multiple of   *)
(* the frequency, and in no other step; as long as no call has raised, the *)
(* number of calls equals len(_results_batches) + len(_results_epochs).    *)
(***************************************************************************)
C17_EvaluateOncePerDueNotification ==
  [][ /\ n_eval_calls' = n_eval_calls
           + (IF \/ (BatchNotified /\ Due(freq_batches, batches_seen))
                 \/ (EpochNotified /\ Due(freq_epochs, epochs_seen))
              THEN 1 ELSE 0)
      /\ n_eval_failed' = 0
           => n_eval_calls' = Len(_results_batches') + Len(_results_epochs') ]_vars

C17_Witness ==
  /\ n_eval_failed = 0
  /\ n_eval_calls = 3
  /\ Len(_results_batches) = 2
  /\ Len(_results_epochs) = 1
  /\ n_batch_notifs = 3
  /\ n_epoch_notifs = 2

(***************************************************************************)
(* C18.  When the key set changes between cycles, reading the result       *)
(* property still returns a mapping: its keys are the keys seen, in the    *)
(* order in which they were first seen, and the list of each key has one   *)
(* value per cycle that contained the key, so that lists of different keys *)
(* differ in length and a position is no longer a cycle index.             *)
(***************************************************************************)
\* the first cycle of the list that holds key k
FirstSeen(results, k) ==
  CHOOSE i \in 1..Len(results) :
    /\ k \in Keys(results[i])
    /\ \A h \in 1..(i - 1) : k \notin Keys(results[h])

\* the position of key k in dict d
PositionIn(d, k) == CHOOSE j \in 1..Len(d) : d[j][1] = k

\* key k was seen before key m
SeenBefore(results, k, m) ==
  LET ik == FirstSeen(results, k)
      im == FirstSeen(results, m)
  IN \/ ik < im
     \/ ik = im /\ PositionIn(results[ik], k) < PositionIn(results[ik], m)

ReadsPerKeyLists(results) ==
  /\ raised = "none"
  /\ Keys(ret) = UNION {Keys(results[i]) : i \in 1..Len(results)}
  /\ Cardinality(Keys(ret)) = Len(ret)
  /\ \A j \in 1..Len(ret) :
       Len(ret[j][2]) =
         Cardinality({i \in 1..Len(results) : ret[j][1] \in Keys(results[i])})
  /\ \A j, l \in 1..Len(ret) :
       j < l => SeenBefore(results, ret[j][1], ret[l][1])

C18_ReadWithChangingKeys ==
  /\ (last_call = "results_batches" /\ Len(_results_batches) >= 1)
       => ReadsPerKeyLists(_results_batches)
  /\ (last_call = "results_epochs" /\ Len(_results_epochs) >= 1)
       => ReadsPerKeyLists(_results_epochs)

C18_Witness ==
  /\ last_call = "results_batches"
  /\ append = ""
  /\ _results_batches = << << <<"loss", 2>> >>,
                           << <<"loss", 1>>, <<"acc", 2>> >>,
                           << <<"loss", 2>> >> >>
  /\ ret = << <<"loss", <<2, 1, 2>> >>, <<"acc", <<2>> >> >>

(***************************************************************************)
(* C19.  When model.evaluate raises during a notification, every field of  *)
(* the evaluator is as before the notification; the failing axis's counter *)
(* is still a multiple of the frequency, and the next notification on that *)
(* axis, if it follows at once, calls model.evaluate again.                *)
(***************************************************************************)
C19_FailureLeavesStateAndRetries ==
  [][ /\ EvaluateFailed
        => ( /\ UNCHANGED fields
             /\ BatchNotified => Due(freq_batches, batches_seen')
             /\ EpochNotified => Due(freq_epochs, epochs_seen') )
      /\ ( /\ raised = "EvaluationFailure"
           /\ \/ last_call = "on_train_batch_end" /\ BatchNotified
              \/ last_call = "on_epoch_end" /\ EpochNotified )
        => n_eval_calls' = n_eval_calls + 1 ]_vars

C19_Witness ==
  /\ last_call = "on_train_batch_end"
  /\ raised = "none"
  /\ freq_batches = Some(2)
  /\ n_eval_failed = 1
  /\ n_batch_notifs = 2
  /\ batches_seen = 1
  /\ Len(_results_batches) = 1
  /\ n_eval_calls = 2
  /\ n_epoch_notifs = 0

(***************************************************************************)
(* SkipConnection: properties of SkipSpec.                                 *)
(***************************************************************************)
Called == skip_call # None

\* C16: a SkipConnection with the default skip path, applied to an input
\* of last dimension d for which the main path outputs last dimension d,
\* returns a tensor with the input's batch dimension and with last
\* dimension d when how = "add" and 2d when how = "concat".
C16_SkipOutputShape ==
  (/\ Called
   /\ skip_args.skip_path = None
   /\ skip_args.how \in {"add", "concat"}
   /\ LastDim(Apply(skip_args.main_path, skip_call.inputs))
        = LastDim(skip_call.inputs))
  => /\ skip_call.raised = "none"
     /\ BatchSize(skip_call.output) = BatchSize(skip_call.inputs)
     /\ \A i \in 1..BatchSize(skip_call.output) :
          Len(skip_call.output[i]) =
            IF skip_args.how = "add"
              THEN LastDim(skip_call.inputs)
              ELSE 2 * LastDim(skip_call.inputs)

C16_Witness ==
  /\ Called
  /\ skip_args.skip_path = None
  /\ skip_args.how = "concat"
  /\ skip_args.main_path = Dense(MaxDim)
  /\ BatchSize(skip_call.inputs) = MaxBatchSize
  /\ LastDim(skip_call.inputs) = MaxDim
  /\ BatchSize(skip_call.output) = MaxBatchSize
  /\ LastDim(skip_call.output) = 2 * MaxDim

\* C20: a call returns the combination of main_path(inputs) and
\* skip_path(inputs), both computed from the same inputs and in that order,
\* where skip_path(inputs) is inputs itself when no skip path was given;
\* every how other than "add" makes the combination a concatenation along
\* the last axis, and neither the construction nor the call raises then.
C20_CallCombinesMainThenSkip ==
  Called =>
    LET x == skip_call.inputs
        m == Apply(skip_args.main_path, x)
        k == IF skip_args.skip_path = None
               THEN x
               ELSE Apply(skip_args.skip_path, x)
        out == skip_call.output
    IN  /\ skip_args.how # "add" =>
             /\ skip_layer.combine = ConcatenateLayer
             /\ skip_call.raised = "none"
             /\ Len(out) = Len(x)
             /\ \A i \in 1..Len(x) : out[i] = m[i] \o k[i]
        /\ (skip_args.how = "add" /\ LastDim(m) = LastDim(k)) =>
             /\ skip_layer.combine = AddLayer
             /\ skip_call.raised = "none"
             /\ Len(out) = Len(x)
             /\ \A i \in 1..Len(x) :
                  /\ Len(out[i]) = LastDim(m)
                  /\ \A j \in 1..LastDim(m) : out[i][j] = m[i][j] + k[i][j]

C20_Witness ==
  /\ Called
  /\ skip_args.how = "ADD"
  /\ skip_args.skip_path = None
  /\ skip_args.main_path = Dense(1)
  /\ skip_call.inputs = <<<<0, 1>>>>
  /\ skip_call.raised = "none"
  /\ skip_call.output = <<<<3, 0, 1>>>>

=============================================================================
